---- MODULE Spec2Model ----
(***************************************************************************)
(* Model of scripts/modern_runner.py: the COMP-3 (packed-decimal) codec,   *)
(* the fixed-width record readers and writers, and the merge-join posting  *)
(* loop of run_posting, driven as main() drives them.                      *)
(*                                                                         *)
(* Representation.                                                         *)
(*  - A Python int is unbounded; money fields reach 10^13 and timestamps   *)
(*    10^14, beyond TLC's machine integers.  A Python int is therefore a   *)
(*    record [neg, mag]: mag is the decimal digit string of abs(v), most   *)
(*    significant digit first and without leading zeros (<<0>> for zero),  *)
(*    which is exactly str(abs(v)); neg is v < 0.                          *)
(*  - bytes and str are sequences of byte values / code points.            *)
(*  - A dict is a record.  Field OBJ is the identity of the Python object  *)
(*    (its record number in the input file): two records with equal bytes  *)
(*    are two different dict objects.                                      *)
(***************************************************************************)
EXTENDS Integers, Sequences, FiniteSets, TLC

VARIABLES
    pc,        \* position of main(): start, loaded, skip, match, posted, wroteAcc, done, failed
    accFile,   \* data/accounts.dat: the complete 58-byte records of the file
    txnFile,   \* data/txns.dat: the complete 72-byte records of the file
    accounts,  \* run_posting's sorted list of account dicts (mutated in place)
    txns,      \* run_posting's sorted list of transaction dicts
    exc,       \* run_posting's exc list
    ai,        \* index of the for loop over accounts (1-based)
    ti,        \* run_posting's cursor ti (0-based, as in the code)
    outAcc,    \* records written to out/accounts_out_modern.dat
    outExc,    \* records written to out/exceptions_modern.dat
    accsIn,    \* history: the account dicts as read, before any mutation
    txnsIn,    \* history: the transaction dicts as read
    log,       \* history: one entry per transaction that reached line 143
    cpc,       \* codec harness: position (idle, input, packed, unpacked)
    cval,      \* codec harness: the integer handed to pack_comp3_fixed
    cdigits,   \* codec harness: total_digits
    cpacked,   \* codec harness: bytes returned by pack_comp3_fixed
    cback      \* codec harness: integer returned by unpack_comp3

vars == <<pc, accFile, txnFile, accounts, txns, exc, ai, ti, outAcc, outExc,
          accsIn, txnsIn, log, cpc, cval, cdigits, cpacked, cback>>

mainVars == <<pc, accFile, txnFile, accounts, txns, exc, ai, ti, outAcc, outExc,
              accsIn, txnsIn, log>>

codecVars == <<cpc, cval, cdigits, cpacked, cback>>

----------------------------------------------------------------------------
(* Bounds of the model *)

MaxAccounts == 2      \* records in accounts.dat
MaxTxns == 3          \* records in txns.dat
MaxDigits == 14       \* longest magnitude handed to the codec harness

(* Program constants *)

ACCT_REC_LEN == 58
TXN_REC_LEN == 72
TODAY == 20250101
SPACE == 32           \* b' '
ZERO == 48            \* '0'

----------------------------------------------------------------------------
(* Python int: unbounded integer arithmetic on decimal digit strings *)

RECURSIVE lstrip0(_)
\* str.lstrip("0")
lstrip0(ds) ==
    IF ds /= <<>> /\ Head(ds) = 0 THEN lstrip0(Tail(ds)) ELSE ds

\* int(digits) for a string of decimal digits: the canonical magnitude
MagOf(ds) == IF lstrip0(ds) = <<>> THEN <<0>> ELSE lstrip0(ds)

MkInt(isNeg, ds) ==
    [neg |-> isNeg /\ MagOf(ds) /= <<0>>, mag |-> MagOf(ds)]

RECURSIVE NatDigits(_)
NatDigits(n) == IF n < 10 THEN <<n>> ELSE Append(NatDigits(n \div 10), n % 10)

\* an integer literal of the program
PyInt(n) == IF n < 0 THEN MkInt(TRUE, NatDigits(-n)) ELSE MkInt(FALSE, NatDigits(n))

RECURSIVE LexLess(_, _)
\* lexicographic order of two sequences of numbers (a proper prefix is less)
LexLess(s, t) ==
    IF t = <<>> THEN FALSE
    ELSE IF s = <<>> THEN TRUE
    ELSE IF Head(s) /= Head(t) THEN Head(s) < Head(t)
    ELSE LexLess(Tail(s), Tail(t))

MagLess(a, b) ==
    IF Len(a) /= Len(b) THEN Len(a) < Len(b) ELSE LexLess(a, b)

RECURSIVE MagAddC(_, _, _)
MagAddC(a, b, c) ==
    IF a = <<>> /\ b = <<>> THEN (IF c = 0 THEN <<>> ELSE <<c>>)
    ELSE LET da == IF a = <<>> THEN 0 ELSE a[Len(a)]
             db == IF b = <<>> THEN 0 ELSE b[Len(b)]
             ra == IF a = <<>> THEN <<>> ELSE SubSeq(a, 1, Len(a) - 1)
             rb == IF b = <<>> THEN <<>> ELSE SubSeq(b, 1, Len(b) - 1)
             s  == da + db + c
         IN Append(MagAddC(ra, rb, s \div 10), s % 10)

RECURSIVE MagSubB(_, _, _)
\* a - b - borrow for magnitudes with a >= b
MagSubB(a, b, w) ==
    IF a = <<>> THEN <<>>
    ELSE LET da == a[Len(a)]
             db == IF b = <<>> THEN 0 ELSE b[Len(b)]
             ra == SubSeq(a, 1, Len(a) - 1)
             rb == IF b = <<>> THEN <<>> ELSE SubSeq(b, 1, Len(b) - 1)
             d  == da - db - w
         IN IF d < 0 THEN Append(MagSubB(ra, rb, 1), d + 10)
                     ELSE Append(MagSubB(ra, rb, 0), d)

\* x + y
IntAdd(x, y) ==
    IF x.neg = y.neg THEN MkInt(x.neg, MagAddC(x.mag, y.mag, 0))
    ELSE IF MagLess(x.mag, y.mag) THEN MkInt(y.neg, MagSubB(y.mag, x.mag, 0))
    ELSE MkInt(x.neg, MagSubB(x.mag, y.mag, 0))

\* 0 - x
IntNeg(x) == MkInt(~x.neg, x.mag)

\* x - y
IntSub(x, y) == IntAdd(x, IntNeg(y))

\* x < y
IntLess(x, y) ==
    IF x.neg /= y.neg THEN x.neg
    ELSE IF x.neg THEN MagLess(y.mag, x.mag)
    ELSE MagLess(x.mag, y.mag)

\* x >= y
IntGE(x, y) == ~IntLess(x, y)

----------------------------------------------------------------------------
(* COMP-3 helpers *)

RECURSIVE NibblesOf(_)
\* lines 29-32: two nibbles per byte, high nibble first
NibblesOf(b) ==
    IF b = <<>> THEN <<>>
    ELSE <<(Head(b) \div 16) % 16, Head(b) % 16>> \o NibblesOf(Tail(b))

\* str(x) of one nibble: 10..15 render as two characters
StrOfNibble(x) == IF x < 10 THEN <<x>> ELSE <<1, x - 10>>

RECURSIVE JoinNibbles(_)
\* "".join(str(x) for x in nibbles)
JoinNibbles(ns) ==
    IF ns = <<>> THEN <<>> ELSE StrOfNibble(Head(ns)) \o JoinNibbles(Tail(ns))

unpack_comp3(b) ==
    LET nibbles == NibblesOf(b)
        sign    == nibbles[Len(nibbles)]
        rest    == SubSeq(nibbles, 1, Len(nibbles) - 1)
        isNeg   == (sign = 13)
        digits  == IF lstrip0(JoinNibbles(rest)) = <<>> THEN <<0>>
                   ELSE lstrip0(JoinNibbles(rest))
        val     == MkInt(FALSE, digits)
    IN IF isNeg THEN IntNeg(val) ELSE val

\* str.rjust(width, '0'): pads on the left, never truncates
rjust0(s, width) ==
    IF Len(s) >= width THEN s ELSE [i \in 1..(width - Len(s)) |-> 0] \o s

RECURSIVE PackPairs(_)
\* lines 47-49: one byte per nibble pair
PackPairs(ns) ==
    IF ns = <<>> THEN <<>>
    ELSE <<(ns[1] * 16 + (ns[2] % 16))>> \o PackPairs(SubSeq(ns, 3, Len(ns)))

\* faulty variant: the sign of the value is lost, 0x0C is written for every value
pack_comp3_fixed_Unsigned(value_cents, total_digits) ==
    LET s        == rjust0(value_cents.mag, total_digits)
        nibbles0 == Append(s, 12)
        nibbles  == IF Len(nibbles0) % 2 = 1 THEN <<0>> \o nibbles0 ELSE nibbles0
    IN PackPairs(nibbles)

pack_comp3_fixed(value_cents, total_digits) ==
    LET isNeg    == IntLess(value_cents, PyInt(0))
        s        == rjust0(value_cents.mag, total_digits)
        nibbles0 == Append(s, IF isNeg THEN 13 ELSE 12)
        nibbles  == IF Len(nibbles0) % 2 = 1 THEN <<0>> \o nibbles0 ELSE nibbles0
    IN PackPairs(nibbles)

----------------------------------------------------------------------------
(* Text helpers: str and bytes are sequences of code points / byte values *)

\* bytes.decode('ascii', 'ignore'): bytes above 127 are dropped
decode_ascii(b) == SelectSeq(b, LAMBDA x : x < 128)

\* the characters str.rstrip() removes (str.isspace() within ASCII)
Whitespace == {9, 10, 11, 12, 13, 28, 29, 30, 31, 32}

RECURSIVE rstrip(_)
rstrip(s) ==
    IF s /= <<>> /\ s[Len(s)] \in Whitespace
    THEN rstrip(SubSeq(s, 1, Len(s) - 1)) ELSE s

\* s.encode('ascii')[:width].ljust(width, b' ')
encode_field(s, width) ==
    LET cut == SubSeq(s, 1, IF Len(s) < width THEN Len(s) ELSE width)
    IN cut \o [i \in 1..(width - Len(cut)) |-> SPACE]

\* int(text or "0") for a text of decimal digit characters
int_of_text(s) ==
    IF s = <<>> THEN PyInt(0)
    ELSE MkInt(FALSE, [i \in 1..Len(s) |-> s[i] - ZERO])

\* f"{v:0{width}d}": zero padded to width, the sign counted in the width
format_0d(v, width) ==
    LET body == rjust0(v.mag, IF v.neg THEN width - 1 ELSE width)
        text == [i \in 1..Len(body) |-> body[i] + ZERO]
    IN IF v.neg THEN <<45>> \o text ELSE text

\* rec[lo:hi] of Python, on a 1-based sequence
Slice(rec, lo, hi) == SubSeq(rec, lo + 1, hi)

----------------------------------------------------------------------------
(* Parsers *)

\* lines 60-69: one account dict from one 58-byte record
ParseAccount(rec, obj) ==
    [ ACCT_ID    |-> rstrip(decode_ascii(Slice(rec, 0, 12))),
      CUST_ID    |-> rstrip(decode_ascii(Slice(rec, 12, 24))),
      PRODUCT    |-> decode_ascii(Slice(rec, 24, 28)),
      STATUS     |-> decode_ascii(Slice(rec, 28, 29)),
      CURR_BAL   |-> unpack_comp3(Slice(rec, 29, 36)),
      OD_LIMIT   |-> unpack_comp3(Slice(rec, 36, 42)),
      OPEN_DATE  |-> int_of_text(decode_ascii(Slice(rec, 42, 50))),
      CLOSE_DATE |-> int_of_text(decode_ascii(Slice(rec, 50, 58))),
      OBJ        |-> obj ]

read_accounts(file) == [i \in 1..Len(file) |-> ParseAccount(file[i], i)]

\* lines 80-89: one transaction dict from one 72-byte record
ParseTxn(rec, obj) ==
    [ ACCT_ID |-> rstrip(decode_ascii(Slice(rec, 0, 12))),
      TXN_ID  |-> rstrip(decode_ascii(Slice(rec, 12, 28))),
      ORIG_ID |-> rstrip(decode_ascii(Slice(rec, 28, 44))),
      CODE    |-> decode_ascii(Slice(rec, 44, 48)),
      AMOUNT  |-> unpack_comp3(Slice(rec, 48, 54)),
      TS      |-> int_of_text(decode_ascii(Slice(rec, 54, 68))),
      CHANNEL |-> decode_ascii(Slice(rec, 68, 72)),
      RAW     |-> rec,
      OBJ     |-> obj ]

read_txns(file) == [i \in 1..Len(file) |-> ParseTxn(file[i], i)]

----------------------------------------------------------------------------
(* Writers *)

\* lines 99-107: the record rebuilt from an account dict
AccountRecord(a) ==
    encode_field(a.ACCT_ID, 12)
    \o encode_field(a.CUST_ID, 12)
    \o encode_field(a.PRODUCT, 4)
    \o encode_field(a.STATUS, 1)
    \o pack_comp3_fixed(a.CURR_BAL, 13)
    \o pack_comp3_fixed(a.OD_LIMIT, 11)
    \o format_0d(a.OPEN_DATE, 8)
    \o format_0d(a.CLOSE_DATE, 8)

\* lines 116-123: the record rebuilt from a transaction dict
ExceptionRecord(t) ==
    encode_field(t.ACCT_ID, 12)
    \o encode_field(t.TXN_ID, 16)
    \o encode_field(t.ORIG_ID, 16)
    \o encode_field(t.CODE, 4)
    \o pack_comp3_fixed(t.AMOUNT, 11)
    \o format_0d(t.TS, 14)
    \o encode_field(t.CHANNEL, 4)

RECURSIVE WrittenUntilAssert(_, _)
\* the records f.write() received before the first failing length assertion
WrittenUntilAssert(recs, reclen) ==
    IF recs = <<>> \/ Len(Head(recs)) /= reclen THEN <<>>
    ELSE <<Head(recs)>> \o WrittenUntilAssert(Tail(recs), reclen)

\* write_accounts: what reaches the file, and whether the assertion raised
write_accounts(accs) ==
    LET recs == [i \in 1..Len(accs) |-> AccountRecord(accs[i])]
        done == WrittenUntilAssert(recs, ACCT_REC_LEN)
    IN [written |-> done, raised |-> Len(done) < Len(recs)]

\* write_exceptions: what reaches the file, and whether the assertion raised
write_exceptions(exceptions) ==
    LET recs == [i \in 1..Len(exceptions) |-> ExceptionRecord(exceptions[i])]
        done == WrittenUntilAssert(recs, TXN_REC_LEN)
    IN [written |-> done, raised |-> Len(done) < Len(recs)]

----------------------------------------------------------------------------
(* Core posting logic *)

\* ts // 1000000, Python's floor division
yyyymmdd_from_ts(ts) ==
    LET n     == Len(ts.mag)
        q     == IF n <= 6 THEN <<0>> ELSE SubSeq(ts.mag, 1, n - 6)
        r     == IF n <= 6 THEN ts.mag ELSE SubSeq(ts.mag, n - 5, n)
        exact == \A i \in 1..Len(r) : r[i] = 0
    IN IF ~ts.neg THEN MkInt(FALSE, q)
       ELSE IF exact THEN MkInt(TRUE, q)
       ELSE IntSub(MkInt(TRUE, q), PyInt(1))

DEPO == <<68, 69, 80, 79>>     \* 'DEPO'
FEE  == <<70, 69, 69, 32>>     \* 'FEE '
INT  == <<73, 78, 84, 32>>     \* 'INT '
REV  == <<82, 69, 86, 32>>     \* 'REV '
WDRW == <<87, 68, 82, 87>>     \* 'WDRW'

\* line 133: the sort key of an account
AccountKeyLess(a, b) == LexLess(a.ACCT_ID, b.ACCT_ID)

\* faulty variant: the key is (ACCT_ID, TS), ties are left in input order
TxnKeyLess_NoTxnId(t, u) ==
    IF t.ACCT_ID /= u.ACCT_ID THEN LexLess(t.ACCT_ID, u.ACCT_ID)
    ELSE IntLess(t.TS, u.TS)

\* faulty variant: the key is (TS, TXN_ID), the transactions of an account are not adjacent
TxnKeyLess_NoAccount(t, u) ==
    IF t.TS /= u.TS THEN IntLess(t.TS, u.TS)
    ELSE LexLess(t.TXN_ID, u.TXN_ID)

\* line 134: the sort key of a transaction, compared as a tuple
TxnKeyLess(t, u) ==
    IF t.ACCT_ID /= u.ACCT_ID THEN LexLess(t.ACCT_ID, u.ACCT_ID)
    ELSE IF t.TS /= u.TS THEN IntLess(t.TS, u.TS)
    ELSE LexLess(t.TXN_ID, u.TXN_ID)

RECURSIVE InsertAccount(_, _)
\* x goes before the first element greater than it (sorted() is stable)
InsertAccount(x, sorted) ==
    IF sorted = <<>> THEN <<x>>
    ELSE IF AccountKeyLess(x, Head(sorted)) THEN <<x>> \o sorted
    ELSE <<Head(sorted)>> \o InsertAccount(x, Tail(sorted))

RECURSIVE SortAccounts(_)
SortAccounts(as) ==
    IF as = <<>> THEN <<>>
    ELSE InsertAccount(as[Len(as)], SortAccounts(SubSeq(as, 1, Len(as) - 1)))

RECURSIVE InsertTxn(_, _)
InsertTxn(x, sorted) ==
    IF sorted = <<>> THEN <<x>>
    ELSE IF TxnKeyLess(x, Head(sorted)) THEN <<x>> \o sorted
    ELSE <<Head(sorted)>> \o InsertTxn(x, Tail(sorted))

RECURSIVE SortTxns(_)
SortTxns(ts) ==
    IF ts = <<>> THEN <<>>
    ELSE InsertTxn(ts[Len(ts)], SortTxns(SubSeq(ts, 1, Len(ts) - 1)))

\* faulty variant: no date filter
OnDate_NoFilter(t) == TRUE

\* line 145: the date filter
OnDate(t) == yyyymmdd_from_ts(t.TS) = PyInt(TODAY)

\* line 148: a['CURR_BAL'] += t['AMOUNT']
Credit(a, t) == [a EXCEPT !.CURR_BAL = IntAdd(a.CURR_BAL, t.AMOUNT)]

\* faulty variant: the debit lands in the wrong field
Debit_WrongField(a, t) == [a EXCEPT !.OD_LIMIT = IntSub(a.OD_LIMIT, t.AMOUNT)]

\* line 150: a['CURR_BAL'] -= t['AMOUNT']
Debit(a, t) == [a EXCEPT !.CURR_BAL = IntSub(a.CURR_BAL, t.AMOUNT)]

\* faulty variant: the guard tests the balance before the withdrawal
GuardPasses_OldBalance(a, t) ==
    IntGE(a.CURR_BAL, IntSub(PyInt(0), a.OD_LIMIT))

\* faulty variant: the guard forgets the overdraft limit
GuardPasses_NoLimit(a, t) ==
    IntGE(IntSub(a.CURR_BAL, t.AMOUNT), PyInt(0))

\* lines 152-154: new_bal >= neg_limit
GuardPasses(a, t) ==
    LET new_bal   == IntSub(a.CURR_BAL, t.AMOUNT)
        neg_limit == IntSub(PyInt(0), a.OD_LIMIT)
    IN IntGE(new_bal, neg_limit)

\* lines 151-157: rejected is TRUE where the code appends t to exc
Withdraw(a, t) ==
    IF GuardPasses(a, t)
    THEN [acct |-> Debit(a, t), rejected |-> FALSE]
    ELSE [acct |-> a, rejected |-> TRUE]

\* faulty variant: an unknown code is collected as an exception
UnknownCode_Rejected(a, t) == [acct |-> a, rejected |-> TRUE]

\* lines 158-160: unknown code: ignore
UnknownCode(a, t) == [acct |-> a, rejected |-> FALSE]

\* lines 145-160: the effect of one consumed transaction on its account
ApplyTxn(a, t) ==
    IF OnDate(t) THEN
        IF t.CODE = DEPO \/ t.CODE = FEE \/ t.CODE = INT
        THEN [acct |-> Credit(a, t), rejected |-> FALSE]
        ELSE IF t.CODE = REV THEN [acct |-> Debit(a, t), rejected |-> FALSE]
        ELSE IF t.CODE = WDRW THEN Withdraw(a, t)
        ELSE UnknownCode(a, t)
    ELSE [acct |-> a, rejected |-> FALSE]

\* line 140: the condition of the first while loop
SkipCond ==
    /\ ti < Len(txns)
    /\ LexLess(txns[ti + 1].ACCT_ID, accounts[ai].ACCT_ID)

\* line 142: the condition of the second while loop
MatchCond ==
    /\ ti < Len(txns)
    /\ txns[ti + 1].ACCT_ID = accounts[ai].ACCT_ID

----------------------------------------------------------------------------
(* Input files of the model *)

DigitText(ds) == [i \in 1..Len(ds) |-> ds[i] + ZERO]

\* a packed field of the given digit count holding n, with the given sign nibble
PackedField(n, digits, sign) == PackPairs(Append(rjust0(NatDigits(n), digits), sign))

Nines(n) == [i \in 1..n |-> 9]

AccountRaw(id, bal7, od, status) ==
    encode_field(id, 12) \o encode_field(<<67, 48, 48, 49>>, 12)
    \o <<67, 72, 75, 32>> \o status
    \o bal7 \o PackedField(od, 11, 12)
    \o DigitText(<<2, 0, 2, 0, 0, 1, 0, 1>>) \o DigitText(<<0, 0, 0, 0, 0, 0, 0, 0>>)

TxnRaw(acct, id, code, amount, sign, ts) ==
    encode_field(acct, 12) \o encode_field(id, 16) \o encode_field(<<>>, 16)
    \o code \o PackedField(amount, 11, sign) \o DigitText(ts)
    \o <<65, 84, 77, 32>>

A001 == <<65, 48, 48, 49>>
A002 == <<65, 48, 48, 50>>

Today0900 == <<2, 0, 2, 5, 0, 1, 0, 1, 0, 9, 0, 0, 0, 0>>
Today1000 == <<2, 0, 2, 5, 0, 1, 0, 1, 1, 0, 0, 0, 0, 0>>
Today1100 == <<2, 0, 2, 5, 0, 1, 0, 1, 1, 1, 0, 0, 0, 0>>
Yesterday == <<2, 0, 2, 4, 1, 2, 3, 1, 1, 0, 0, 0, 0, 0>>

AccountPool ==
    << AccountRaw(A001, PackedField(10000, 13, 12), 5000, <<65>>),
       AccountRaw(A002, PackedField(1000, 13, 12), 0, <<65>>),
       \* a second record with the id A001, at the largest 13-digit balance
       AccountRaw(A001, PackPairs(Append(Nines(13), 12)), 0, <<70>>) >>

TxnPool ==
    << TxnRaw(A001, <<84, 50, 48>>, WDRW, 20000, 12, Today1000),
       TxnRaw(A001, <<84, 51, 48>>, WDRW, 12000, 12, Today1000),
       TxnRaw(A001, <<84, 49, 48>>, REV, 5000, 12, Today1100),
       TxnRaw(A001, <<84, 48, 53>>, DEPO, 15000, 12, Today1000),
       \* sign nibble 0xF: non-negative, but not the nibble the encoder writes
       TxnRaw(A002, <<84, 53, 48>>, WDRW, 2000, 15, Today1000),
       \* a code outside the five known ones
       TxnRaw(A001, <<84, 57, 48>>, <<88, 88, 88, 88>>, 5000, 12, Today0900),
       \* dated on another day
       TxnRaw(A001, <<84, 55, 48>>, WDRW, 50000, 12, Yesterday) >>

Injective(f) == \A i, j \in DOMAIN f : i /= j => f[i] /= f[j]

\* the files: up to max records of the pool, in any order, none twice
FilesOver(pool, max) ==
    UNION { { [i \in 1..n |-> pool[f[i]]] :
                f \in { g \in [1..n -> 1..Len(pool)] : Injective(g) } } :
            n \in 0..(IF max < Len(pool) THEN max ELSE Len(pool)) }

\* the values handed to the codec harness: every length up to MaxDigits,
\* both signs, with the smallest and the largest magnitude of each length
CodecMagnitudes ==
    {<<0>>}
    \cup { Nines(n) : n \in 1..MaxDigits }
    \cup { <<1>> \o [i \in 1..(n - 1) |-> 0] : n \in 1..MaxDigits }
    \cup { [i \in 1..n |-> i % 10] : n \in 1..MaxDigits }
    \cup { [i \in 1..n |-> IF i = 1 THEN 5 ELSE 0] \o <<7>> : n \in 1..(MaxDigits - 1) }

CodecValues == { MkInt(sg, m) : sg \in BOOLEAN, m \in CodecMagnitudes }

CodecDigits == {11, 13}

----------------------------------------------------------------------------
(* main(): read, post, write *)

CodecIdle ==
    /\ cpc = "idle"
    /\ cval = PyInt(0)
    /\ cdigits = 0
    /\ cpacked = <<>>
    /\ cback = PyInt(0)

Init ==
    /\ pc = "start"
    /\ accFile \in FilesOver(AccountPool, MaxAccounts)
    /\ txnFile \in FilesOver(TxnPool, MaxTxns)
    /\ accounts = <<>> /\ txns = <<>> /\ exc = <<>>
    /\ ai = 1 /\ ti = 0
    /\ outAcc = <<>> /\ outExc = <<>>
    /\ accsIn = <<>> /\ txnsIn = <<>> /\ log = <<>>
    /\ CodecIdle

\* main, lines 174-175
ReadInputs ==
    /\ pc = "start"
    /\ accounts' = read_accounts(accFile)
    /\ txns' = read_txns(txnFile)
    /\ accsIn' = read_accounts(accFile)
    /\ txnsIn' = read_txns(txnFile)
    /\ pc' = "loaded"
    /\ UNCHANGED <<accFile, txnFile, exc, ai, ti, outAcc, outExc, log>>
    /\ UNCHANGED codecVars

\* run_posting, lines 133-138: sort both lists, start the loop
RunPostingBegin ==
    /\ pc = "loaded"
    /\ accounts' = SortAccounts(accounts)
    /\ txns' = SortTxns(txns)
    /\ exc' = <<>>
    /\ ti' = 0
    /\ ai' = 1
    /\ pc' = "skip"
    /\ UNCHANGED <<accFile, txnFile, outAcc, outExc, log,
                   accsIn, txnsIn>>
    /\ UNCHANGED codecVars

\* where each step of the loop is taken
SkipGuard == pc = "skip" /\ ai <= Len(accounts) /\ SkipCond

ConsumeGuard ==
    /\ pc \in {"skip", "match"}
    /\ ai <= Len(accounts)
    /\ pc = "skip" => ~SkipCond
    /\ MatchCond

NextAccountGuard ==
    /\ pc \in {"skip", "match"}
    /\ ai <= Len(accounts)
    /\ pc = "skip" => ~SkipCond
    /\ ~MatchCond

ReturnGuard == pc = "skip" /\ ai > Len(accounts)

\* lines 140-141: one iteration of the first while loop
SkipTxn ==
    /\ SkipGuard
    /\ ti' = ti + 1
    /\ UNCHANGED <<pc, accFile, txnFile, accounts, txns, exc, ai, outAcc, outExc, log,
                   accsIn, txnsIn>>
    /\ UNCHANGED codecVars

\* lines 142-161: one iteration of the second while loop
ConsumeTxn ==
    /\ ConsumeGuard
    /\ LET a == accounts[ai]
           t == txns[ti + 1]
           r == ApplyTxn(a, t)
       IN /\ accounts' = [accounts EXCEPT ![ai] = r.acct]
          /\ exc' = IF r.rejected THEN Append(exc, t) ELSE exc
          /\ log' = Append(log, [txn |-> t.OBJ, acct |-> a.OBJ,
                                 before |-> a.CURR_BAL, after |-> r.acct.CURR_BAL])
    /\ ti' = ti + 1
    /\ pc' = "match"
    /\ UNCHANGED <<accFile, txnFile, txns, ai, outAcc, outExc,
                   accsIn, txnsIn>>
    /\ UNCHANGED codecVars

\* line 138: both while loops are over, the for loop takes the next account
NextAccount ==
    /\ NextAccountGuard
    /\ ai' = ai + 1
    /\ pc' = "skip"
    /\ UNCHANGED <<accFile, txnFile, accounts, txns, exc, ti, outAcc, outExc, log,
                   accsIn, txnsIn>>
    /\ UNCHANGED codecVars

\* line 162: the for loop is exhausted
Return ==
    /\ ReturnGuard
    /\ pc' = "posted"
    /\ UNCHANGED <<accFile, txnFile, accounts, txns, exc, ai, ti, outAcc, outExc, log,
                   accsIn, txnsIn>>
    /\ UNCHANGED codecVars

\* main line 182
WriteAccounts ==
    /\ pc = "posted"
    /\ LET w == write_accounts(accounts)
       IN /\ outAcc' = w.written
          /\ pc' = IF w.raised THEN "failed" ELSE "wroteAcc"
    /\ UNCHANGED <<accFile, txnFile, accounts, txns, exc, ai, ti, outExc, log,
                   accsIn, txnsIn>>
    /\ UNCHANGED codecVars

\* main line 183
WriteExceptions ==
    /\ pc = "wroteAcc"
    /\ LET w == write_exceptions(exc)
       IN /\ outExc' = w.written
          /\ pc' = IF w.raised THEN "failed" ELSE "done"
    /\ UNCHANGED <<accFile, txnFile, accounts, txns, exc, ai, ti, outAcc, log,
                   accsIn, txnsIn>>
    /\ UNCHANGED codecVars

Next ==
    \/ ReadInputs
    \/ RunPostingBegin
    \/ SkipTxn
    \/ ConsumeTxn
    \/ NextAccount
    \/ Return
    \/ WriteAccounts
    \/ WriteExceptions

Spec == Init /\ [][Next]_vars

----------------------------------------------------------------------------
(* The codec on its own: pack one value, unpack the result *)

InitCodec ==
    /\ pc = "idle"
    /\ accFile = <<>> /\ txnFile = <<>>
    /\ accounts = <<>> /\ txns = <<>> /\ exc = <<>>
    /\ ai = 1 /\ ti = 0
    /\ outAcc = <<>> /\ outExc = <<>>
    /\ accsIn = <<>> /\ txnsIn = <<>> /\ log = <<>>
    /\ cpc = "input"
    /\ cval \in CodecValues
    /\ cdigits \in CodecDigits
    /\ cpacked = <<>>
    /\ cback = PyInt(0)

CodecPack ==
    /\ cpc = "input"
    /\ cpacked' = pack_comp3_fixed(cval, cdigits)
    /\ cpc' = "packed"
    /\ UNCHANGED <<cval, cdigits, cback>>
    /\ UNCHANGED mainVars

CodecUnpack ==
    /\ cpc = "packed"
    /\ cback' = unpack_comp3(cpacked)
    /\ cpc' = "unpacked"
    /\ UNCHANGED <<cval, cdigits, cpacked>>
    /\ UNCHANGED mainVars

NextCodec == CodecPack \/ CodecUnpack

SpecCodec == InitCodec /\ [][NextCodec]_vars

----------------------------------------------------------------------------
(* Vocabulary of the properties *)

InLoop == pc \in {"skip", "match"}
Posted == pc \in {"posted", "wroteAcc", "done", "failed"}

KnownCodes == {DEPO, FEE, INT, REV, WDRW}

\* the date part of a 14-digit timestamp is the as-of date
DatedToday(t) ==
    /\ ~t.TS.neg
    /\ Len(t.TS.mag) = 14
    /\ SubSeq(t.TS.mag, 1, 8) = NatDigits(TODAY)

\* the transaction and the account (as read) of a log entry
TxnOf(e) == txnsIn[e.txn]
AcctOf(e) == accsIn[e.acct]

InExc(obj) == \E i \in 1..Len(exc) : exc[i].OBJ = obj
InLog(obj) == \E j \in 1..Len(log) : log[j].txn = obj
LogPos(obj) == CHOOSE j \in 1..Len(log) : log[j].txn = obj

\* -OD_LIMIT <= bal
AboveFloor(bal, a) == IntGE(bal, IntNeg(a.OD_LIMIT))

\* a withdrawal of the as-of date that the guard let through
AppliedWithdrawal(e) ==
    TxnOf(e).CODE = WDRW /\ DatedToday(TxnOf(e)) /\ ~InExc(e.txn)

\* a deposit, fee, interest or reversal of the as-of date
OtherPosting(e) ==
    TxnOf(e).CODE \in {DEPO, FEE, INT, REV} /\ DatedToday(TxnOf(e))

\* the consumed transaction of a step that consumes one
Consumed == txnsIn[log'[Len(log')].txn]

----------------------------------------------------------------------------
(* C1 *)

----------------------------------------------------------------------------
(* C2 *)

\* the guard of a withdrawal fails on the balance the account had when consumed
FailsGuard(e) ==
    /\ TxnOf(e).CODE = WDRW
    /\ DatedToday(TxnOf(e))
    /\ IntLess(IntSub(e.before, TxnOf(e).AMOUNT), IntNeg(AcctOf(e).OD_LIMIT))

\* C2: the exceptions list holds exactly the consumed transactions that are
\* withdrawals of the as-of date whose tentative balance, at the moment they were
\* consumed, was below -OD_LIMIT; each once, in that order, the balance untouched.
C2_ExceptionsExactlyFailedGuards ==
    LET failed == SelectSeq(log, FailsGuard)
    IN /\ [i \in 1..Len(exc) |-> exc[i].OBJ] = [i \in 1..Len(failed) |-> failed[i].txn]
       /\ \A i \in 1..Len(failed) :
             /\ failed[i].after = failed[i].before
             /\ TxnOf(failed[i]).ACCT_ID = AcctOf(failed[i]).ACCT_ID
       /\ \A i, j \in 1..Len(exc) : i /= j => exc[i].OBJ /= exc[j].OBJ

\* a finished run with one withdrawal rejected and another passed on a balance
\* that an earlier posting of the run had changed
C2_Witness ==
    /\ pc = "done"
    /\ exc /= <<>>
    /\ \E j \in 1..Len(log) :
          /\ AppliedWithdrawal(log[j])
          /\ log[j].before /= AcctOf(log[j]).CURR_BAL

----------------------------------------------------------------------------
(* C3 *)

\* C3: the exceptions file holds, in encounter order, the very bytes of the
\* input records of the rejected withdrawals.
C3_ExceptionsByteIdentical ==
    pc = "done" => outExc = [i \in 1..Len(exc) |-> txnFile[exc[i].OBJ]]

----------------------------------------------------------------------------
(* C4, C5: the codec *)

\* C4: unpack_comp3(pack_comp3_fixed(v, D)) = v when abs(v) has at most D digits.
C4_RoundTrip ==
    (cpc = "unpacked" /\ Len(cval.mag) <= cdigits) => cback = cval

\* the largest negative 13-digit value went through both functions
C4_Witness ==
    /\ cpc = "unpacked"
    /\ cdigits = 13
    /\ cval = MkInt(TRUE, Nines(13))

\* C5: pack_comp3_fixed returns bytes only for a value that fits the digit count.
C5_OverflowNeverReturns ==
    cpc \in {"packed", "unpacked"} => Len(cval.mag) <= cdigits

----------------------------------------------------------------------------
(* C6 *)

\* t is due before u: earlier timestamp, or the same timestamp and smaller id
DueBefore(t, u) ==
    \/ IntLess(t.TS, u.TS)
    \/ t.TS = u.TS /\ LexLess(t.TXN_ID, u.TXN_ID)

MatchesAnAccount(t) == \E i \in 1..Len(accsIn) : accsIn[i].ACCT_ID = t.ACCT_ID

\* C6: two transactions of one account are evaluated in the order of
\* (timestamp, transaction id), whatever their order in the input.
C6_EvaluatedInTimestampOrder ==
    /\ \A i, j \in 1..Len(log) :
          (i < j /\ log[i].acct = log[j].acct)
          => ~DueBefore(TxnOf(log[j]), TxnOf(log[i]))
    /\ Posted =>
          \A k, m \in 1..Len(txnsIn) :
              ( /\ txnsIn[k].ACCT_ID = txnsIn[m].ACCT_ID
                /\ MatchesAnAccount(txnsIn[k])
                /\ DueBefore(txnsIn[k], txnsIn[m]) )
              => (InLog(k) /\ InLog(m) /\ LogPos(k) < LogPos(m))

\* a finished run whose input had a later record evaluated before an earlier
\* one, the two having the same timestamp
C6_Witness ==
    /\ pc = "done"
    /\ \E k, m \in 1..Len(txnsIn) :
          /\ k < m /\ InLog(k) /\ InLog(m)
          /\ LogPos(m) < LogPos(k)
          /\ txnsIn[k].TS = txnsIn[m].TS

----------------------------------------------------------------------------
(* C7 *)

UnknownToday(t) == t.CODE \notin KnownCodes /\ DatedToday(t)

\* C7 (as stated): a consumed transaction of the as-of date with an unknown
\* code changes no balance and is recorded in an output of the run.
C7_UnknownCodeRecorded ==
    pc = "done" =>
        \A j \in 1..Len(log) :
            UnknownToday(TxnOf(log[j])) =>
                /\ log[j].after = log[j].before
                /\ InExc(log[j].txn)

\* C7 (amended): such a transaction changes no balance and is dropped: it is
\* not appended to the exceptions list, and every record of the exceptions file
\* carries the code WDRW.
C7_UnknownCodeDropped ==
    [][ /\ (log' /= log /\ UnknownToday(Consumed))
           => (accounts' = accounts /\ exc' = exc)
        /\ \A i \in 1..Len(exc') : ~UnknownToday(exc'[i])
        /\ \A i \in 1..Len(outExc') : Slice(outExc'[i], 44, 48) = WDRW ]_vars

\* a finished run that consumed a transaction of the as-of date with an unknown code
C7_Witness ==
    /\ pc = "done"
    /\ \E j \in 1..Len(log) : UnknownToday(TxnOf(log[j]))

----------------------------------------------------------------------------
(* C8 *)

\* C8: a transaction dated on another day is neither applied nor rejected.
C8_OffDatePassedOver ==
    [][ /\ (log' /= log /\ ~DatedToday(Consumed))
           => (accounts' = accounts /\ exc' = exc)
        /\ \A i \in 1..Len(exc') : DatedToday(exc'[i]) ]_vars

\* a finished run that consumed a withdrawal dated on another day, which the
\* guard would have rejected
C8_Witness ==
    /\ pc = "done"
    /\ \E j \in 1..Len(log) :
          /\ ~DatedToday(TxnOf(log[j]))
          /\ TxnOf(log[j]).CODE = WDRW
          /\ ~AboveFloor(IntSub(log[j].before, TxnOf(log[j]).AMOUNT), AcctOf(log[j]))

----------------------------------------------------------------------------
(* C9 *)

SameButBalance(a, b) == [a EXCEPT !.CURR_BAL = b.CURR_BAL] = b

\* C9: the returned list holds the input accounts, each once, ascending by
\* ACCT_ID, with every field but CURR_BAL as read; transactions are untouched.
C9_OnlyBalancesChange ==
    /\ InLoop \/ Posted =>
          /\ Len(accounts) = Len(accsIn)
          /\ \A k \in 1..Len(accsIn) : \E i \in 1..Len(accounts) : accounts[i].OBJ = k
          /\ \A i \in 1..Len(accounts) :
                /\ accounts[i].OBJ \in 1..Len(accsIn)
                /\ SameButBalance(accounts[i], accsIn[accounts[i].OBJ])
          /\ \A i \in 1..(Len(accounts) - 1) :
                ~LexLess(accounts[i + 1].ACCT_ID, accounts[i].ACCT_ID)
          /\ Len(txns) = Len(txnsIn)
          /\ \A i \in 1..Len(txns) : txns[i] = txnsIn[txns[i].OBJ]
    /\ \A i \in 1..Len(exc) : exc[i] = txnsIn[exc[i].OBJ]

\* a posted run over an accounts file that was not in ACCT_ID order, in which
\* a reversal changed a balance
C9_Witness ==
    /\ Posted
    /\ \E i, j \in 1..Len(accsIn) :
          /\ i < j
          /\ LexLess(accsIn[j].ACCT_ID, accsIn[i].ACCT_ID)
    /\ \E i \in 1..Len(accounts) :
          accounts[i].CURR_BAL /= accsIn[accounts[i].OBJ].CURR_BAL
    /\ \E j \in 1..Len(log) :
          TxnOf(log[j]).CODE = REV /\ log[j].after /= log[j].before

----------------------------------------------------------------------------
(* C10 *)

C10_MergeInvariant ==
    \* a transaction is evaluated at most once, and only against an account
    \* with its ACCT_ID
    /\ \A i, j \in 1..Len(log) : i /= j => log[i].txn /= log[j].txn
    /\ \A j \in 1..Len(log) : TxnOf(log[j]).ACCT_ID = AcctOf(log[j]).ACCT_ID
    \* only evaluated transactions are rejected
    /\ \A i \in 1..Len(exc) : InLog(exc[i].OBJ)
    \* at the end every account was visited, and the evaluated transactions
    \* are exactly those whose ACCT_ID some account has
    /\ Posted =>
          /\ ai = Len(accounts) + 1
          /\ \A k \in 1..Len(txnsIn) : InLog(k) <=> MatchesAnAccount(txnsIn[k])
    \* the loop never blocks
    /\ InLoop => (SkipGuard \/ ConsumeGuard \/ NextAccountGuard \/ ReturnGuard)

\* what is left to do: accounts to visit and transactions to pass
C10_Left == (Len(accounts) + 1 - ai) + (Len(txns) - ti)

C10_MergeStep ==
    \* the cursors only move forward
    /\ ti' >= ti
    /\ ai' >= ai
    \* every step of the loop passes a transaction, finishes an account or returns
    /\ InLoop => (C10_Left' < C10_Left \/ pc' = "posted")
    \* a step of the loop that evaluates nothing changes no balance and rejects nothing
    /\ (InLoop /\ log' = log) => (accounts' = accounts /\ exc' = exc)
    \* an evaluation changes at most the balance of the account it is evaluated against
    /\ (InLoop /\ log' /= log) =>
          \A i \in 1..Len(accounts) :
              accounts[i].OBJ /= log'[Len(log')].acct => accounts'[i] = accounts[i]

\* C10: the merge evaluates a transaction exactly once if some account has its
\* ACCT_ID and never otherwise; an orphan changes nothing and blocks nothing;
\* the cursor only advances and the loop ends with every account visited (it
\* never blocks, and each of its steps leaves less to do).
C10_MergeJoin ==
    /\ []C10_MergeInvariant
    /\ [][C10_MergeStep]_vars

\* a finished run that skipped an orphan and then evaluated a transaction of a
\* later account
C10_Witness ==
    /\ pc = "done"
    /\ \E k, m \in 1..Len(txnsIn) :
          /\ ~MatchesAnAccount(txnsIn[k])
          /\ LexLess(txnsIn[k].ACCT_ID, txnsIn[m].ACCT_ID)
          /\ InLog(m)

====
